---- MODULE Spec2Model ----
(***************************************************************************)
(* A model of the terminal Mandelbrot viewer in src/main.rs: the viewport  *)
(* (struct App) and its eight mutators, the escape-time function           *)
(* mandelbrot_iterations, the colour classifier iteration_to_color, the    *)
(* control loop run_app and the process wrapper main.                      *)
(*                                                                         *)
(* The program computes with f64 and u32.  f64 is modelled bit-exactly as  *)
(* IEEE-754 binary64 (53-bit significand, round to nearest, ties to even,  *)
(* subnormals, signed zeros, infinities, NaN).  TLC's integers are 32 bits *)
(* wide, so a significand is kept as a little-endian sequence of 14-bit    *)
(* limbs.                                                                  *)
(***************************************************************************)
EXTENDS Integers, Sequences, FiniteSets, TLC

(***************************************************************************)
(* Natural numbers of any size: little-endian limb sequences without       *)
(* leading zero limbs; zero is the empty sequence.                         *)
(***************************************************************************)
LimbBits == 14
LimbBase == 2^LimbBits

RECURSIVE BNorm(_)
BNorm(a) ==
  IF a = <<>> THEN <<>>
  ELSE IF a[Len(a)] = 0 THEN BNorm(SubSeq(a, 1, Len(a) - 1))
  ELSE a

RECURSIVE BFromInt(_)
BFromInt(n) ==
  IF n = 0 THEN <<>> ELSE <<n % LimbBase>> \o BFromInt(n \div LimbBase)

RECURSIVE BAddC(_, _, _)
BAddC(a, b, c) ==
  IF a = <<>> /\ b = <<>> THEN (IF c = 0 THEN <<>> ELSE <<c>>)
  ELSE LET x == (IF a = <<>> THEN 0 ELSE Head(a))
                + (IF b = <<>> THEN 0 ELSE Head(b)) + c
       IN <<x % LimbBase>>
            \o BAddC(IF a = <<>> THEN <<>> ELSE Tail(a),
                     IF b = <<>> THEN <<>> ELSE Tail(b), x \div LimbBase)

BAdd(a, b) == BAddC(a, b, 0)

\* a - b for a >= b, limb by limb with a borrow.
RECURSIVE BSubC(_, _, _)
BSubC(a, b, c) ==
  IF a = <<>> THEN <<>>
  ELSE LET x == Head(a) - (IF b = <<>> THEN 0 ELSE Head(b)) - c
       IN <<IF x < 0 THEN x + LimbBase ELSE x>>
            \o BSubC(Tail(a), IF b = <<>> THEN <<>> ELSE Tail(b),
                     IF x < 0 THEN 1 ELSE 0)

BSub(a, b) == BNorm(BSubC(a, b, 0))

\* -1, 0, 1 as a < b, a = b, a > b.
RECURSIVE BCmpAt(_, _, _)
BCmpAt(a, b, i) ==
  IF i = 0 THEN 0
  ELSE IF a[i] < b[i] THEN -1
  ELSE IF a[i] > b[i] THEN 1
  ELSE BCmpAt(a, b, i - 1)

BCmp(a, b) ==
  IF Len(a) < Len(b) THEN -1
  ELSE IF Len(a) > Len(b) THEN 1
  ELSE BCmpAt(a, b, Len(a))

\* a * k for a limb-sized k.
RECURSIVE BMulSmallC(_, _, _)
BMulSmallC(a, k, c) ==
  IF a = <<>> THEN (IF c = 0 THEN <<>> ELSE <<c>>)
  ELSE LET x == Head(a) * k + c
       IN <<x % LimbBase>> \o BMulSmallC(Tail(a), k, x \div LimbBase)

BMulSmall(a, k) == IF k = 0 THEN <<>> ELSE BMulSmallC(a, k, 0)

BShiftLimb(a) == IF a = <<>> THEN <<>> ELSE <<0>> \o a

RECURSIVE BMul(_, _)
BMul(a, b) ==
  IF a = <<>> \/ b = <<>> THEN <<>>
  ELSE BAdd(BMulSmall(b, Head(a)), BShiftLimb(BMul(Tail(a), b)))

\* a * 2^n.
BShl(a, n) ==
  IF a = <<>> THEN <<>>
  ELSE [i \in 1..(n \div LimbBits) |-> 0] \o BMulSmall(a, 2^(n % LimbBits))

\* floor(a / 2^n).
BShr(a, n) ==
  LET k == n \div LimbBits
      r == n % LimbBits
      len == Len(a) - k
  IN IF len <= 0 THEN <<>>
     ELSE BNorm([i \in 1..len |->
                  (a[i + k] \div 2^r)
                  + (IF i + k < Len(a)
                     THEN (a[i + k + 1] % 2^r) * 2^(LimbBits - r) ELSE 0)])

\* Bit i (bit 0 the least significant) of a.
BBit(a, i) ==
  IF i < 0 \/ i \div LimbBits >= Len(a) THEN 0
  ELSE (a[i \div LimbBits + 1] \div 2^(i % LimbBits)) % 2

\* Whether the n low bits of a are all zero.
BLowZero(a, n) ==
  IF n <= 0 THEN TRUE
  ELSE /\ \A i \in 1..(n \div LimbBits) : i > Len(a) \/ a[i] = 0
       /\ \/ n \div LimbBits >= Len(a)
          \/ a[n \div LimbBits + 1] % 2^(n % LimbBits) = 0

RECURSIVE IntBitLen(_)
IntBitLen(n) == IF n = 0 THEN 0 ELSE 1 + IntBitLen(n \div 2)

BBitLen(a) ==
  IF a = <<>> THEN 0 ELSE LimbBits * (Len(a) - 1) + IntBitLen(a[Len(a)])

(***************************************************************************)
(* f64: IEEE-754 binary64.  A finite value is (-1)^s * m * 2^e with        *)
(* 2^52 <= m < 2^53 and EMin <= e <= EMaxLsb (normal), or m < 2^52 and     *)
(* e = EMin (zero, subnormal); so equal values are equal records.          *)
(***************************************************************************)
MantBits == 53
EMin == -1074
EMaxLsb == 971

F64Zero(s) == [k |-> "fin", s |-> s, m |-> <<>>, e |-> EMin]
F64Inf(s) == [k |-> "inf", s |-> s, m |-> <<>>, e |-> 0]
F64NaN == [k |-> "nan", s |-> 0, m |-> <<>>, e |-> 0]

\* m * 2^e with m <= 2^53 already on the grid of exponent e.
F64Pack(s, m, e) ==
  LET over == BBitLen(m) > MantBits
      m2 == IF over THEN BShr(m, 1) ELSE m
      e2 == IF over THEN e + 1 ELSE e
  IN IF m2 = <<>> THEN F64Zero(s)
     ELSE IF e2 > EMaxLsb THEN F64Inf(s)
     ELSE [k |-> "fin", s |-> s, m |-> m2, e |-> e2]

\* The f64 nearest to (-1)^s * M * 2^E, ties to even.
F64Round(s, M, E) ==
  IF M = <<>> THEN F64Zero(s)
  ELSE LET L == BBitLen(M)
           e == IF E + L - MantBits > EMin THEN E + L - MantBits ELSE EMin
       IN IF e <= E THEN F64Pack(s, BShl(M, E - e), e)
          ELSE LET d == e - E
                   q == BShr(M, d)
                   up == /\ BBit(M, d - 1) = 1
                         /\ (~BLowZero(M, d - 1) \/ BBit(q, 0) = 1)
               IN F64Pack(s, IF up THEN BAdd(q, <<1>>) ELSE q, e)

F64FromInt(n) ==
  IF n < 0 THEN F64Round(1, BFromInt(-n), 0) ELSE F64Round(0, BFromInt(n), 0)

F64Neg(a) == IF a.k = "nan" THEN a ELSE [a EXCEPT !.s = 1 - a.s]

F64IsZero(a) == a.k = "fin" /\ a.m = <<>>

F64Mul(a, b) ==
  IF a.k = "nan" \/ b.k = "nan" THEN F64NaN
  ELSE IF a.k = "inf" \/ b.k = "inf"
    THEN (IF F64IsZero(a) \/ F64IsZero(b) THEN F64NaN
          ELSE F64Inf((a.s + b.s) % 2))
  ELSE F64Round((a.s + b.s) % 2, BMul(a.m, b.m), a.e + b.e)

\* a + b for finite a, b whose exponents differ by more than the significand
\* and its guard bits: b is below the last guard bit of a and acts as a
\* sticky bit only.
F64AddFar(a, b) ==
  IF b.m = <<>> THEN a
  ELSE IF a.s = b.s THEN F64Round(a.s, BAdd(BShl(a.m, 3), <<1>>), a.e - 3)
  ELSE F64Round(a.s, BSub(BShl(a.m, 3), <<1>>), a.e - 3)

\* Sum of two finite values: exact, then rounded once.
F64AddFin(a, b) ==
  IF a.e - b.e > MantBits + 3 THEN F64AddFar(a, b)
  ELSE IF b.e - a.e > MantBits + 3 THEN F64AddFar(b, a)
  ELSE LET E == IF a.e < b.e THEN a.e ELSE b.e
           A == BShl(a.m, a.e - E)
           B == BShl(b.m, b.e - E)
           c == BCmp(A, B)
       IN IF a.s = b.s THEN F64Round(a.s, BAdd(A, B), E)
          ELSE IF c = 0 THEN F64Zero(0)
          ELSE IF c > 0 THEN F64Round(a.s, BSub(A, B), E)
          ELSE F64Round(b.s, BSub(B, A), E)

F64Add(a, b) ==
  IF a.k = "nan" \/ b.k = "nan" THEN F64NaN
  ELSE IF a.k = "inf"
    THEN (IF b.k = "inf" /\ b.s # a.s THEN F64NaN ELSE a)
  ELSE IF b.k = "inf" THEN b
  ELSE F64AddFin(a, b)

F64Sub(a, b) == F64Add(a, F64Neg(b))

\* The quotient digit floor(r / d) for r < d * LimbBase and a divisor d whose
\* top limb is at least LimbBase / 2: estimated from the top limbs, which
\* never underestimates, then lowered until it fits.
RECURSIVE BFitDigit(_, _, _)
BFitDigit(r, d, q) ==
  IF BCmp(BMulSmall(d, q), r) > 0 THEN BFitDigit(r, d, q - 1) ELSE q

BQuotDigit(r, d) ==
  LET n == Len(d)
      t == IF Len(r) > n THEN r[n + 1] * LimbBase + r[n]
           ELSE IF Len(r) = n THEN r[n] ELSE 0
      est == IF t \div d[n] < LimbBase - 1 THEN t \div d[n] ELSE LimbBase - 1
  IN BFitDigit(r, d, est)

\* Long division of a by d, limb i of a downwards: <<quotient, remainder>>.
\* (The test on r2 and q2 makes TLC compute them at each step.)
RECURSIVE BDivLimbs(_, _, _, _, _)
BDivLimbs(a, i, d, r, q) ==
  IF i = 0 THEN <<q, r>>
  ELSE LET r1 == BNorm(<<a[i]>> \o r)
           qd == BQuotDigit(r1, d)
           r2 == BSub(r1, BMulSmall(d, qd))
           q2 == BNorm(<<qd>> \o q)
       IN IF Len(r2) >= 0 /\ Len(q2) >= 0
          THEN BDivLimbs(a, i - 1, d, r2, q2) ELSE <<>>

\* Quotient of two finite non-zero values: the significands are brought to
\* 53 bits, the quotient is taken to 56 bits and more, and the remainder's
\* non-zeroness is folded into a last sticky bit before the one rounding.
F64DivFin(a, b) ==
  LET la == MantBits - BBitLen(a.m)
      lb == MantBits - BBitLen(b.m)
      d == BShl(b.m, lb + 3)
      n == BShl(a.m, la + 3 + MantBits + 3)
      qr == BDivLimbs(n, Len(n), d, <<>>, <<>>)
      sticky == IF qr[2] = <<>> THEN <<>> ELSE <<1>>
  IN F64Round((a.s + b.s) % 2, BAdd(BMulSmall(qr[1], 2), sticky),
              (a.e - la) - (b.e - lb) - (MantBits + 3) - 1)

F64Div(a, b) ==
  IF a.k = "nan" \/ b.k = "nan" THEN F64NaN
  ELSE IF a.k = "inf"
    THEN (IF b.k = "inf" THEN F64NaN ELSE F64Inf((a.s + b.s) % 2))
  ELSE IF b.k = "inf" THEN F64Zero((a.s + b.s) % 2)
  ELSE IF F64IsZero(b)
    THEN (IF F64IsZero(a) THEN F64NaN ELSE F64Inf((a.s + b.s) % 2))
  ELSE IF F64IsZero(a) THEN F64Zero((a.s + b.s) % 2)
  ELSE F64DivFin(a, b)

\* -1, 0, 1 as |a| < |b|, |a| = |b|, |a| > |b|, for a, b not NaN.
F64CmpMag(a, b) ==
  IF a.k = "inf" THEN (IF b.k = "inf" THEN 0 ELSE 1)
  ELSE IF b.k = "inf" THEN -1
  ELSE IF a.e # b.e THEN (IF a.e > b.e THEN 1 ELSE -1)
  ELSE BCmp(a.m, b.m)

\* a > b; false when either is NaN; -0.0 and 0.0 are equal.
F64Gt(a, b) ==
  IF a.k = "nan" \/ b.k = "nan" THEN FALSE
  ELSE IF F64IsZero(a) /\ F64IsZero(b) THEN FALSE
  ELSE IF a.s # b.s THEN a.s = 0
  ELSE IF a.s = 0 THEN F64CmpMag(a, b) > 0
  ELSE F64CmpMag(a, b) < 0

\* `n as f64` for a u32 n: exact.
F64FromU32(n) == F64Round(0, BFromInt(n), 0)

U32MaxLimbs == BSub(BShl(<<1>>, 32), <<1>>)

\* `x as u32`: truncation towards zero, saturating at 0 and at u32::MAX, NaN
\* to 0.  The result is a limb sequence, u32::MAX being beyond TLC's integers.
F64ToU32(x) ==
  IF x.k = "nan" \/ x.s = 1 THEN <<>>
  ELSE IF x.k = "inf" THEN U32MaxLimbs
  ELSE IF x.m = <<>> THEN <<>>
  ELSE IF x.e >= 0 THEN U32MaxLimbs
  ELSE LET t == BShr(x.m, -x.e)
       IN IF BCmp(t, U32MaxLimbs) > 0 THEN U32MaxLimbs ELSE t

(***************************************************************************)
(* u32, as far as the program uses it.  The two 16-bit halves are added    *)
(* separately, so that the test never leaves TLC's integers.               *)
(***************************************************************************)
U32Half == 2^16

\* The sum of the high halves of a and b and of the carry of the low halves.
U32HighSum(a, b) ==
  (a \div U32Half) + (b \div U32Half)
    + (((a % U32Half) + (b % U32Half)) \div U32Half)

U32AddOverflows(a, b) == U32HighSum(a, b) >= U32Half

\* a + b as a release build computes it (wrapping); a debug build panics
\* where U32AddOverflows holds.
U32Add(a, b) ==
  IF U32AddOverflows(a, b)
  THEN (U32HighSum(a, b) % U32Half) * U32Half
         + (((a % U32Half) + (b % U32Half)) % U32Half)
  ELSE a + b

\* u32::saturating_sub
U32SaturatingSub(a, b) == IF a < b THEN 0 ELSE a - b

U32Min(a, b) == IF a < b THEN a ELSE b

U32Max(a, b) == IF a > b THEN a ELSE b

(***************************************************************************)
(* The f64 literals of the program (a decimal literal is the f64 nearest   *)
(* to it, which is what the correctly rounded quotient gives).             *)
(***************************************************************************)
Lit_1_5 == F64Div(F64FromInt(3), F64FromInt(2))
Lit_0_1 == F64Div(F64FromInt(1), F64FromInt(10))
Lit_2_0 == F64FromInt(2)
Lit_4_0 == F64FromInt(4)
Lit_8_0 == F64FromInt(8)

(***************************************************************************)
(* struct App and impl Default for App.                                    *)
(***************************************************************************)
AppDefault ==
  [zoom |-> F64FromInt(1),
   center_x |-> F64Div(F64FromInt(-1), F64FromInt(2)),
   center_y |-> F64Zero(0),
   max_iterations |-> 100]

IterStep == 20
IterCap == 500
IterFloor == 20

(***************************************************************************)
(* impl App: the eight mutators, each a function of the viewport.          *)
(***************************************************************************)
zoom_in(a) == [a EXCEPT !.zoom = F64Mul(a.zoom, Lit_1_5)]

\* zoom_out with `-=` for `/=`.
zoom_out_minus(a) == [a EXCEPT !.zoom = F64Sub(a.zoom, Lit_1_5)]

zoom_out(a) == [a EXCEPT !.zoom = F64Div(a.zoom, Lit_1_5)]

\* move_left with the step multiplied by the zoom instead of divided by it.
move_left_times(a) ==
  [a EXCEPT !.center_x = F64Sub(a.center_x, F64Mul(Lit_0_1, a.zoom))]

move_left(a) ==
  [a EXCEPT !.center_x = F64Sub(a.center_x, F64Div(Lit_0_1, a.zoom))]

move_right(a) ==
  [a EXCEPT !.center_x = F64Add(a.center_x, F64Div(Lit_0_1, a.zoom))]

move_up(a) ==
  [a EXCEPT !.center_y = F64Sub(a.center_y, F64Div(Lit_0_1, a.zoom))]

move_down(a) ==
  [a EXCEPT !.center_y = F64Add(a.center_y, F64Div(Lit_0_1, a.zoom))]

\* increase_iterations without its cap.
increase_iterations_uncapped(a) ==
  [a EXCEPT !.max_iterations = U32Add(a.max_iterations, IterStep)]

increase_iterations(a) ==
  [a EXCEPT !.max_iterations =
     U32Min(U32Add(a.max_iterations, IterStep), IterCap)]

decrease_iterations(a) ==
  [a EXCEPT !.max_iterations =
     U32Max(U32SaturatingSub(a.max_iterations, IterStep), IterFloor)]

(***************************************************************************)
(* fn mandelbrot_iterations: the loop's escape test and its update of z.   *)
(* A complex number is a pair <<re, im>> of f64.                            *)
(***************************************************************************)
\* The escape test with `>=` for `>`.
Escaped_or_equal(z) ==
  LET n == F64Add(F64Mul(z[1], z[1]), F64Mul(z[2], z[2]))
  IN F64Gt(n, Lit_4_0) \/ n = Lit_4_0

\* z.0 * z.0 + z.1 * z.1 > 4.0
Escaped(z) == F64Gt(F64Add(F64Mul(z[1], z[1]), F64Mul(z[2], z[2])), Lit_4_0)

\* (z.0 * z.0 - z.1 * z.1 + c.0, 2.0 * z.0 * z.1 + c.1)
ZNext(z, c) ==
  <<F64Add(F64Sub(F64Mul(z[1], z[1]), F64Mul(z[2], z[2])), c[1]),
    F64Add(F64Mul(F64Mul(Lit_2_0, z[1]), z[2]), c[2])>>

ZStart == <<F64Zero(0), F64Zero(0)>>

(***************************************************************************)
(* fn iteration_to_color.  A colour is the name of its ratatui Color.      *)
(***************************************************************************)
ColorOfBucket(b) ==
  CASE b = BFromInt(0) -> "Blue"
    [] b = BFromInt(1) -> "LightBlue"
    [] b = BFromInt(2) -> "Cyan"
    [] b = BFromInt(3) -> "Green"
    [] b = BFromInt(4) -> "Yellow"
    [] b = BFromInt(5) -> "LightRed"
    [] b = BFromInt(6) -> "Red"
    [] b = BFromInt(7) -> "Magenta"
    [] OTHER -> "White"

\* iteration_to_color with the ratio rounded to the nearest bucket instead of
\* truncated (half a bucket is added before the cast).
iteration_to_color_rounded(iterations, max_iterations) ==
  IF iterations = max_iterations THEN "Black"
  ELSE LET ratio == F64Div(F64FromU32(iterations), F64FromU32(max_iterations))
       IN ColorOfBucket(F64ToU32(F64Add(F64Mul(ratio, Lit_8_0),
                                         F64Div(F64FromInt(1), F64FromInt(2)))))

iteration_to_color(iterations, max_iterations) ==
  IF iterations = max_iterations THEN "Black"
  ELSE LET ratio == F64Div(F64FromU32(iterations), F64FromU32(max_iterations))
       IN ColorOfBucket(F64ToU32(F64Mul(ratio, Lit_8_0)))

(***************************************************************************)
(* fn run_app: the match on key.code.  A key code is the character of a    *)
(* KeyCode::Char, or the name of another KeyCode variant.                  *)
(***************************************************************************)
\* The quit arm taking Esc as well as 'q'.
IsQuitKey_or_esc(code) == code \in {"q", "Esc"}

IsQuitKey(code) == code = "q"

MutatorKeys ==
  {"+", "=", "-", "Left", "h", "Right", "l", "Up", "k", "Down", "j", "i", "d"}

\* The match with the arms of 'h' and 'l' exchanged.
Dispatch_h_l_swapped(code, a) ==
  CASE code \in {"+", "="} -> zoom_in(a)
    [] code = "-" -> zoom_out(a)
    [] code \in {"Left", "l"} -> move_left(a)
    [] code \in {"Right", "h"} -> move_right(a)
    [] code \in {"Up", "k"} -> move_up(a)
    [] code \in {"Down", "j"} -> move_down(a)
    [] code = "i" -> increase_iterations(a)
    [] code = "d" -> decrease_iterations(a)
    [] OTHER -> a

\* The arms of the match other than that of 'q'.
Dispatch(code, a) ==
  CASE code \in {"+", "="} -> zoom_in(a)
    [] code = "-" -> zoom_out(a)
    [] code \in {"Left", "h"} -> move_left(a)
    [] code \in {"Right", "l"} -> move_right(a)
    [] code \in {"Up", "k"} -> move_up(a)
    [] code \in {"Down", "j"} -> move_down(a)
    [] code = "i" -> increase_iterations(a)
    [] code = "d" -> decrease_iterations(a)
    [] OTHER -> a

\* Polling again after a timeout, without the redraw.
AfterPoll_no_redraw(available) == IF available THEN "read" ELSE "poll"

\* Where the loop goes after event::poll returned Ok(available).
AfterPoll(available) == IF available THEN "read" ELSE "draw"

VARIABLES
  app,       \* the viewport: run_app's `app`, or the receiver of a mutator
  nops,      \* mutator calls made so far (SpecView, SpecIter)
  start,     \* how the first state was chosen (SpecView, SpecIter)
  scen,      \* how far the calls made follow Scenario; -1 once they differ
  mi_c,        \* mandelbrot_iterations: its argument c
  mi_max_iter, \* its argument max_iter
  mi_z,        \* its local z
  mi_i,        \* its loop variable i
  mi_pc,       \* "loop" while it runs, "done" once it has returned
  mi_ret,      \* the value it returned, -1 before
  mi_orbit,    \* the values of z it has tested, in order
  ic_iterations,      \* iteration_to_color: its argument iterations
  ic_max_iterations,  \* its argument max_iterations
  ic_color,           \* the colour it returned, "none" before
  pc,          \* main and run_app: the call or statement about to run
  raw_mode,    \* the terminal is in raw mode
  alt_screen,  \* the terminal shows the alternate screen
  res,         \* run_app's result: "pending", "ok" or "err"
  exit_code,   \* the process's exit code, -1 while it runs
  printed,     \* who printed the error: "main" (println!), "runtime" (the
               \* report of an Err returned by main), "none"
  io_errors,   \* the calls that returned Err
  restore_attempted,  \* disable_raw_mode has been called
  draws,       \* calls of terminal.draw
  polls,       \* calls of event::poll
  reads,       \* calls of event::read
  calls,       \* mutator calls made by the match
  drawn,       \* the viewport of the last frame drawn
  ev           \* the event read and not yet matched

viewVars == <<app, nops, start, scen>>
mandelVars == <<mi_c, mi_max_iter, mi_z, mi_i, mi_pc, mi_ret, mi_orbit>>
colorVars == <<ic_iterations, ic_max_iterations, ic_color>>
termVars ==
  <<raw_mode, alt_screen, exit_code, printed, io_errors, restore_attempted>>
loopVars == <<res, draws, polls, reads, calls, drawn, ev>>
procVars == <<pc, termVars, loopVars>>
vars == <<viewVars, mandelVars, colorVars, procVars>>

\* The variables of a part that a specification does not run.
ViewIdle == app = AppDefault /\ nops = 0 /\ start = "idle" /\ scen = -1
MandelIdle ==
  /\ mi_c = ZStart /\ mi_max_iter = 0 /\ mi_z = ZStart /\ mi_i = 0
  /\ mi_pc = "idle" /\ mi_ret = -1 /\ mi_orbit = <<>>
ColorIdle == ic_iterations = 0 /\ ic_max_iterations = 0 /\ ic_color = "none"
NoEvent == [kind |-> "None", code |-> ""]
ProcStart ==
  /\ raw_mode = FALSE /\ alt_screen = FALSE /\ res = "pending"
  /\ exit_code = -1 /\ printed = "none" /\ io_errors = {}
  /\ restore_attempted = FALSE
  /\ draws = 0 /\ polls = 0 /\ reads = 0 /\ calls = 0
  /\ drawn = AppDefault /\ ev = NoEvent
ProcIdle == pc = "idle" /\ ProcStart

(***************************************************************************)
(* Spec: the process.  main sets the terminal up, runs run_app on the      *)
(* default viewport, restores the terminal and reports.  Every call into   *)
(* the terminal or the event source returns Ok or Err, the model choosing. *)
(* run_app's loop is followed for MaxTicks frames.                         *)
(***************************************************************************)
MaxTicks == 3

KeyCodes == MutatorKeys \cup {"q", "x", "Q", "Esc", "Enter"}

Events ==
  {[kind |-> "Key", code |-> c] : c \in KeyCodes}
    \cup {[kind |-> "Resize", code |-> ""], [kind |-> "Mouse", code |-> ""]}

Running == pc \in {"draw", "poll", "read", "match"}

\* main returns Err(e) through `?`: the runtime prints the error and the
\* process exits with code 1.
MainReturnsErr(call) ==
  /\ io_errors' = io_errors \cup {call}
  /\ printed' = "runtime"
  /\ exit_code' = 1
  /\ pc' = "exited"

\* run_app returns r to main, whose next statement is disable_raw_mode()?.
RunAppReturns(r) ==
  /\ res' = r
  /\ pc' = "disable_raw_mode"

Init ==
  /\ pc = "enable_raw_mode"
  /\ ProcStart
  /\ app = AppDefault /\ nops = 0 /\ start = "main" /\ scen = -1
  /\ MandelIdle /\ ColorIdle

\* enable_raw_mode()?
Main_enable_raw_mode ==
  /\ pc = "enable_raw_mode"
  /\ \/ /\ raw_mode' = TRUE
        /\ pc' = "enter_alternate_screen"
        /\ UNCHANGED <<exit_code, printed, io_errors>>
     \/ /\ MainReturnsErr("enable_raw_mode")
        /\ UNCHANGED raw_mode
  /\ UNCHANGED <<alt_screen, restore_attempted, loopVars, viewVars,
                 mandelVars, colorVars>>

\* execute!(stdout, EnterAlternateScreen, EnableMouseCapture)?  On an error
\* the first command may or may not have reached the terminal.
Main_enter_alternate_screen ==
  /\ pc = "enter_alternate_screen"
  /\ \/ /\ alt_screen' = TRUE
        /\ pc' = "new_terminal"
        /\ UNCHANGED <<exit_code, printed, io_errors>>
     \/ /\ MainReturnsErr("enter_alternate_screen")
        /\ alt_screen' \in BOOLEAN
  /\ UNCHANGED <<raw_mode, restore_attempted, loopVars, viewVars,
                 mandelVars, colorVars>>

\* Terminal::new(backend)?, then App::default() and the call of run_app.
Main_new_terminal ==
  /\ pc = "new_terminal"
  /\ \/ /\ pc' = "draw"
        /\ app' = AppDefault
        /\ UNCHANGED <<exit_code, printed, io_errors>>
     \/ /\ MainReturnsErr("new_terminal")
        /\ UNCHANGED app
  /\ UNCHANGED <<raw_mode, alt_screen, restore_attempted, loopVars, nops,
                 start, scen, mandelVars, colorVars>>

\* terminal.draw(|f| ui(f, &app))?
Run_draw ==
  /\ pc = "draw"
  /\ draws < MaxTicks
  /\ draws' = draws + 1
  /\ \/ /\ drawn' = app
        /\ pc' = "poll"
        /\ UNCHANGED <<res, io_errors>>
     \/ /\ RunAppReturns("err")
        /\ io_errors' = io_errors \cup {"draw"}
        /\ UNCHANGED drawn
  /\ UNCHANGED <<raw_mode, alt_screen, exit_code, printed, restore_attempted,
                 polls, reads, calls, ev, viewVars, mandelVars, colorVars>>

\* event::poll(Duration::from_millis(50))?
Run_poll ==
  /\ pc = "poll"
  /\ polls' = polls + 1
  /\ \/ /\ \E available \in BOOLEAN : pc' = AfterPoll(available)
        /\ UNCHANGED <<res, io_errors>>
     \/ /\ RunAppReturns("err")
        /\ io_errors' = io_errors \cup {"poll"}
  /\ UNCHANGED <<raw_mode, alt_screen, exit_code, printed, restore_attempted,
                 draws, reads, calls, drawn, ev, viewVars, mandelVars,
                 colorVars>>

\* event::read()?
Run_read ==
  /\ pc = "read"
  /\ reads' = reads + 1
  /\ \/ /\ ev' \in Events
        /\ pc' = "match"
        /\ UNCHANGED <<res, io_errors>>
     \/ /\ RunAppReturns("err")
        /\ io_errors' = io_errors \cup {"read"}
        /\ UNCHANGED ev
  /\ UNCHANGED <<raw_mode, alt_screen, exit_code, printed, restore_attempted,
                 draws, polls, calls, drawn, viewVars, mandelVars, colorVars>>

\* if let Event::Key(key) = ... { match key.code { ... } }.  The addition of
\* increase_iterations panics in a build with overflow checks where it
\* overflows, and wraps in one without.
Run_match ==
  /\ pc = "match"
  /\ ev' = NoEvent
  /\ IF ev.kind = "Key" /\ IsQuitKey(ev.code)
     THEN /\ RunAppReturns("ok")
          /\ UNCHANGED <<app, calls>>
     ELSE /\ app' = (IF ev.kind = "Key" THEN Dispatch(ev.code, app) ELSE app)
          /\ calls' = (IF ev.kind = "Key" /\ ev.code \in MutatorKeys
                       THEN calls + 1 ELSE calls)
          /\ pc' \in (IF /\ ev.kind = "Key" /\ ev.code = "i"
                         /\ U32AddOverflows(app.max_iterations, IterStep)
                      THEN {"draw", "panicked"} ELSE {"draw"})
          /\ UNCHANGED res
  /\ UNCHANGED <<termVars, draws, polls, reads, drawn, nops, start, scen,
                 mandelVars, colorVars>>

\* disable_raw_mode()?
Main_disable_raw_mode ==
  /\ pc = "disable_raw_mode"
  /\ restore_attempted' = TRUE
  /\ \/ /\ raw_mode' = FALSE
        /\ pc' = "leave_alternate_screen"
        /\ UNCHANGED <<exit_code, printed, io_errors>>
     \/ /\ MainReturnsErr("disable_raw_mode")
        /\ UNCHANGED raw_mode
  /\ UNCHANGED <<alt_screen, loopVars, viewVars, mandelVars, colorVars>>

\* execute!(terminal.backend_mut(), LeaveAlternateScreen, DisableMouseCapture)?
Main_leave_alternate_screen ==
  /\ pc = "leave_alternate_screen"
  /\ \/ /\ alt_screen' = FALSE
        /\ pc' = "show_cursor"
        /\ UNCHANGED <<exit_code, printed, io_errors>>
     \/ /\ MainReturnsErr("leave_alternate_screen")
        /\ alt_screen' \in BOOLEAN
  /\ UNCHANGED <<raw_mode, restore_attempted, loopVars, viewVars,
                 mandelVars, colorVars>>

\* terminal.show_cursor()?
Main_show_cursor ==
  /\ pc = "show_cursor"
  /\ \/ /\ pc' = "report"
        /\ UNCHANGED <<exit_code, printed, io_errors>>
     \/ MainReturnsErr("show_cursor")
  /\ UNCHANGED <<raw_mode, alt_screen, restore_attempted, loopVars, viewVars,
                 mandelVars, colorVars>>

\* if let Err(err) = res { println!("{err:?}"); }  Ok(())
Main_report ==
  /\ pc = "report"
  /\ printed' = (IF res = "err" THEN "main" ELSE printed)
  /\ exit_code' = 0
  /\ pc' = "exited"
  /\ UNCHANGED <<raw_mode, alt_screen, io_errors, restore_attempted, loopVars,
                 viewVars, mandelVars, colorVars>>

Next ==
  \/ Main_enable_raw_mode
  \/ Main_enter_alternate_screen
  \/ Main_new_terminal
  \/ Run_draw
  \/ Run_poll
  \/ Run_read
  \/ Run_match
  \/ Main_disable_raw_mode
  \/ Main_leave_alternate_screen
  \/ Main_show_cursor
  \/ Main_report

Spec == Init /\ [][Next]_vars

(***************************************************************************)
(* SpecView: the mutators called in any order.  The viewport leaves the    *)
(* f64 normal range only after some 1750 zoom calls in one direction, so   *)
(* the first state is the default viewport or the default viewport after   *)
(* such a run of zoom_out or zoom_in calls, and at most MaxOps calls       *)
(* follow.                                                                 *)
(***************************************************************************)
MaxOps == 4
ZoomOutRun == 1834
ZoomInRun == 1750

\* n calls of zoom_out, one after the other.  (The test on b makes TLC compute
\* each viewport before the next call, instead of suspending all n calls.)
RECURSIVE ZoomOutTimes(_, _)
ZoomOutTimes(a, n) ==
  IF n = 0 THEN a
  ELSE IF n <= 8
    THEN LET b == zoom_out(a)
         IN IF b.max_iterations >= 0 THEN ZoomOutTimes(b, n - 1) ELSE b
  ELSE LET b == ZoomOutTimes(a, n \div 2)
       IN IF b.max_iterations >= 0 THEN ZoomOutTimes(b, n - n \div 2) ELSE b

RECURSIVE ZoomInTimes(_, _)
ZoomInTimes(a, n) ==
  IF n = 0 THEN a
  ELSE IF n <= 8
    THEN LET b == zoom_in(a)
         IN IF b.max_iterations >= 0 THEN ZoomInTimes(b, n - 1) ELSE b
  ELSE LET b == ZoomInTimes(a, n \div 2)
       IN IF b.max_iterations >= 0 THEN ZoomInTimes(b, n - n \div 2) ELSE b

AfterZoomOutRun == ZoomOutTimes(AppDefault, ZoomOutRun)
AfterZoomInRun == ZoomInTimes(AppDefault, ZoomInRun)

Scenario == <<"zoom_in", "zoom_in", "zoom_in", "move_left">>

Follow(name) ==
  IF scen >= 0 /\ scen < Len(Scenario) /\ Scenario[scen + 1] = name
  THEN scen + 1 ELSE -1

Call(name, a) ==
  /\ nops < MaxOps
  /\ app' = a
  /\ nops' = nops + 1
  /\ scen' = Follow(name)
  /\ UNCHANGED <<start, mandelVars, colorVars, procVars>>

View_zoom_in == Call("zoom_in", zoom_in(app))
View_zoom_out == Call("zoom_out", zoom_out(app))
View_move_left == Call("move_left", move_left(app))
View_move_right == Call("move_right", move_right(app))
View_move_up == Call("move_up", move_up(app))
View_move_down == Call("move_down", move_down(app))
View_increase_iterations ==
  Call("increase_iterations", increase_iterations(app))
View_decrease_iterations ==
  Call("decrease_iterations", decrease_iterations(app))

InitView ==
  /\ \/ start = "default" /\ app = AppDefault /\ scen = 0
     \/ start = "zoom_out_run" /\ app = AfterZoomOutRun /\ scen = -1
     \/ start = "zoom_in_run" /\ app = AfterZoomInRun /\ scen = -1
  /\ nops = 0
  /\ MandelIdle /\ ColorIdle /\ ProcIdle

NextView ==
  \/ View_zoom_in
  \/ View_zoom_out
  \/ View_move_left
  \/ View_move_right
  \/ View_move_up
  \/ View_move_down
  \/ View_increase_iterations
  \/ View_decrease_iterations

SpecView == InitView /\ [][NextView]_vars

(***************************************************************************)
(* SpecIter: increase_iterations and decrease_iterations on a viewport     *)
(* whose max_iterations is any value of IterFloor..IterCap.                *)
(***************************************************************************)
MaxIterCalls == 2

IterCall(a) ==
  /\ nops < MaxIterCalls
  /\ app' = a
  /\ nops' = nops + 1
  /\ UNCHANGED <<start, scen, mandelVars, colorVars, procVars>>

Iter_increase == IterCall(increase_iterations(app))
Iter_decrease == IterCall(decrease_iterations(app))

InitIter ==
  /\ start = "iterations"
  /\ \E m \in IterFloor..IterCap : app = [AppDefault EXCEPT !.max_iterations = m]
  /\ nops = 0
  /\ scen = -1
  /\ MandelIdle /\ ColorIdle /\ ProcIdle

NextIter == Iter_increase \/ Iter_decrease

SpecIter == InitIter /\ [][NextIter]_vars

(***************************************************************************)
(* SpecMandel: one call of mandelbrot_iterations, a step per pass of its   *)
(* loop, on the points and budgets below.  mi_orbit records each z the     *)
(* loop tests.                                                             *)
(***************************************************************************)
\* n / 2^k, exactly.
Dyadic(n, k) ==
  IF n < 0 THEN F64Round(1, BFromInt(-n), -k) ELSE F64Round(0, BFromInt(n), -k)

MandelPoints ==
  {<<Dyadic(0, 0), Dyadic(0, 0)>>,      \* the origin
   <<Dyadic(2, 0), Dyadic(2, 0)>>,      \* the point of the program's test
   <<Dyadic(-2, 0), Dyadic(1, 256)>>,   \* just outside the circle of radius 2
   <<Dyadic(-2, 0), Dyadic(0, 0)>>,     \* on the circle, in the set
   <<Dyadic(2, 0), Dyadic(0, 0)>>,      \* on the circle, outside the set
   <<Dyadic(0, 0), Dyadic(2, 0)>>,
   <<Dyadic(1, 0), Dyadic(0, 0)>>,
   <<Dyadic(1, 1), Dyadic(0, 0)>>,
   <<Dyadic(1, 2), Dyadic(0, 0)>>,      \* the cusp, in the set
   <<Dyadic(9, 5), Dyadic(0, 0)>>,      \* escapes at 16
   <<Dyadic(129, 9), Dyadic(0, 0)>>,    \* escapes at 69
   <<Dyadic(-3, 2), Dyadic(1, 4)>>,     \* escapes at 51
   <<Dyadic(-3, 2), Dyadic(1, 5)>>,     \* escapes at 101
   <<Dyadic(-1, 0), Dyadic(0, 0)>>,     \* period 2, in the set
   <<Dyadic(3, 3), Dyadic(1, 2)>>}

MandelBudgets == {0, 1, 2, 3, 20, 100}

InitMandel ==
  /\ mi_c \in MandelPoints
  /\ mi_max_iter \in MandelBudgets
  /\ mi_z = ZStart
  /\ mi_i = 0
  /\ mi_pc = "loop"
  /\ mi_ret = -1
  /\ mi_orbit = <<>>
  /\ ViewIdle /\ ColorIdle /\ ProcIdle

\* One pass of `for i in 0..max_iter`: the test of z, then its update.
Mandel_pass ==
  /\ mi_pc = "loop"
  /\ mi_i < mi_max_iter
  /\ mi_orbit' = Append(mi_orbit, mi_z)
  /\ IF Escaped(mi_z)
     THEN mi_ret' = mi_i /\ mi_pc' = "done" /\ UNCHANGED <<mi_z, mi_i>>
     ELSE mi_z' = ZNext(mi_z, mi_c) /\ mi_i' = mi_i + 1
            /\ UNCHANGED <<mi_ret, mi_pc>>
  /\ UNCHANGED <<mi_c, mi_max_iter, viewVars, colorVars, procVars>>

\* The range is exhausted: the function returns max_iter.
Mandel_exhausted ==
  /\ mi_pc = "loop"
  /\ mi_i >= mi_max_iter
  /\ mi_ret' = mi_max_iter
  /\ mi_pc' = "done"
  /\ UNCHANGED <<mi_c, mi_max_iter, mi_z, mi_i, mi_orbit, viewVars, colorVars,
               procVars>>

NextMandel == Mandel_pass \/ Mandel_exhausted

SpecMandel == InitMandel /\ [][NextMandel]_vars

(***************************************************************************)
(* SpecColor: one call of iteration_to_color on iterations <= budget, for  *)
(* the small budgets and for every budget the viewport can hold.           *)
(***************************************************************************)
MaxSmallBudget == 16

ColorBudgets ==
  (1..MaxSmallBudget)
    \cup {m \in IterFloor..IterCap : (m - AppDefault.max_iterations) % IterStep = 0}

InitColor ==
  /\ ic_max_iterations \in ColorBudgets
  /\ ic_iterations \in 0..ic_max_iterations
  /\ ic_color = "none"
  /\ ViewIdle /\ MandelIdle /\ ProcIdle

Color_call ==
  /\ ic_color = "none"
  /\ ic_color' = iteration_to_color(ic_iterations, ic_max_iterations)
  /\ UNCHANGED <<ic_iterations, ic_max_iterations, viewVars, mandelVars,
               procVars>>

NextColor == Color_call

SpecColor == InitColor /\ [][NextColor]_vars

C2_NormSq(z) == F64Add(F64Mul(z[1], z[1]), F64Mul(z[2], z[2]))

C2_Beyond(z) == F64Gt(C2_NormSq(z), F64FromInt(4))

\* z^2 + c
C2_After(z, c) ==
  <<F64Add(F64Sub(F64Mul(z[1], z[1]), F64Mul(z[2], z[2])), c[1]),
    F64Add(F64Mul(F64Mul(F64FromInt(2), z[1]), z[2]), c[2])>>

C2_Origin == <<F64Zero(0), F64Zero(0)>>

C2_LeastEscape ==
  /\ mi_ret \in 0..mi_max_iter
  /\ Len(mi_orbit) = (IF mi_ret < mi_max_iter THEN mi_ret + 1 ELSE mi_max_iter)
  /\ \A j \in 1..Len(mi_orbit) :
       mi_orbit[j] = (IF j = 1 THEN C2_Origin
                      ELSE C2_After(mi_orbit[j - 1], mi_c))
  /\ mi_ret < mi_max_iter => C2_Beyond(mi_orbit[mi_ret + 1])
  /\ \A j \in 1..mi_ret : ~C2_Beyond(mi_orbit[j])
  /\ mi_max_iter = 0 => mi_ret = 0
  /\ mi_c = C2_Origin => mi_ret = mi_max_iter

C2_EscapeTime ==
  mi_pc = "done" =>
    /\ C2_LeastEscape
    /\ (mi_max_iter = 100 /\ C2_Beyond(mi_c)) => mi_ret < 100

\* A point that leaves the circle at pass 51 of 100.
C2_Witness == mi_pc = "done" /\ mi_max_iter = 100 /\ mi_ret = 51

\* |c|^2 > 4 in exact arithmetic: the squares of the two parts, brought to
\* one exponent and added without rounding.
C2_ExactlyOutside(c) ==
  LET A == BMul(c[1].m, c[1].m)
      B == BMul(c[2].m, c[2].m)
      ea == IF A = <<>> THEN 2 * c[2].e ELSE 2 * c[1].e
      eb == IF B = <<>> THEN ea ELSE 2 * c[2].e
      E == IF ea < eb THEN ea ELSE eb
      S == BAdd(BShl(A, ea - E), BShl(B, eb - E))
  IN IF S = <<>> THEN FALSE
     ELSE IF E >= 2 THEN ~(E = 2 /\ S = <<1>>)
     ELSE BCmp(S, BShl(<<1>>, 2 - E)) > 0

\* The statement as made: below 100 for every c with |c| > 2.
C2_EscapeTime_AnyOutside ==
  mi_pc = "done" =>
    /\ C2_LeastEscape
    /\ (mi_max_iter = 100 /\ C2_ExactlyOutside(mi_c)) => mi_ret < 100

(***************************************************************************)
(* C3.  iteration_to_color gives black when iterations = max_iterations    *)
(* (max_iterations > 0), and for iterations < max_iterations the palette   *)
(* entry of the bucket floor(8 * iterations / max_iterations): blue,       *)
(* light blue, cyan, green, yellow, light red, red, magenta for 0..7,      *)
(* white from 8 on.                                                        *)
(***************************************************************************)
C3_Palette ==
  <<"Blue", "LightBlue", "Cyan", "Green", "Yellow", "LightRed", "Red",
    "Magenta", "White">>

C3_ColorOfBucket ==
  ic_color # "none" =>
    IF ic_iterations = ic_max_iterations THEN ic_color = "Black"
    ELSE LET b == (8 * ic_iterations) \div ic_max_iterations
         IN ic_color = C3_Palette[(IF b < 8 THEN b ELSE 8) + 1]

\* The last bucket of the largest budget.
C3_Witness ==
  ic_color = "Magenta" /\ ic_max_iterations = 500 /\ ic_iterations = 499

(***************************************************************************)
(* C8.  For every m in 20..500, increase_iterations gives min(m + 20, 500) *)
(* and decrease_iterations gives max(m - 20, 20), the subtraction          *)
(* saturating at 0; neither the addition nor the subtraction leaves u32;   *)
(* nothing else of the viewport changes.                                   *)
(***************************************************************************)
C8_IterationSteps ==
  [][LET m == app.max_iterations
         same == /\ app'.zoom = app.zoom
                 /\ app'.center_x = app.center_x
                 /\ app'.center_y = app.center_y
     IN /\ Iter_increase =>
             /\ app'.max_iterations = (IF m + 20 < 500 THEN m + 20 ELSE 500)
             /\ ~U32AddOverflows(m, 20)
             /\ same
        /\ Iter_decrease =>
             /\ app'.max_iterations =
                  (IF (IF m < 20 THEN 0 ELSE m - 20) > 20 THEN m - 20 ELSE 20)
             /\ m - 20 >= 0
             /\ same
        /\ app'.max_iterations \in 20..500]_vars

\* increase_iterations has been called at the cap, or just below it.
C8_Witness ==
  /\ start = "iterations"
  /\ nops = MaxIterCalls
  /\ app.max_iterations = 500

(***************************************************************************)
(* C9.  From the default viewport three zoom_in calls give zoom = 3.375    *)
(* with the rest unchanged, and a move_left after them gives               *)
(* center_x = -0.5 - 0.1/3.375, about -0.5296, with the rest unchanged;    *)
(* the step of every move is 0.1 divided by the zoom at the time.          *)
(***************************************************************************)
C9_Zoom3 == F64Div(F64FromInt(27), F64FromInt(8))
C9_MinusHalf == F64Div(F64FromInt(-1), F64FromInt(2))

C9_ScenarioState ==
  /\ scen = 3 =>
       /\ app.zoom = C9_Zoom3
       /\ app.center_x = C9_MinusHalf
       /\ app.center_y = F64Zero(0)
       /\ app.max_iterations = 100
  /\ scen = 4 =>
       /\ app.center_x = F64Sub(C9_MinusHalf, F64Div(Lit_0_1, C9_Zoom3))
       /\ F64Gt(app.center_x, F64Div(F64FromInt(-52965), F64FromInt(100000)))
       /\ F64Gt(F64Div(F64FromInt(-52955), F64FromInt(100000)), app.center_x)
       /\ app.zoom = C9_Zoom3
       /\ app.center_y = F64Zero(0)
       /\ app.max_iterations = 100

C9_PanStep ==
  LET step == F64Div(Lit_0_1, app.zoom)
  IN /\ View_move_left =>
          app' = [app EXCEPT !.center_x = F64Sub(app.center_x, step)]
     /\ View_move_right =>
          app' = [app EXCEPT !.center_x = F64Add(app.center_x, step)]
     /\ View_move_up =>
          app' = [app EXCEPT !.center_y = F64Sub(app.center_y, step)]
     /\ View_move_down =>
          app' = [app EXCEPT !.center_y = F64Add(app.center_y, step)]

C9_ZoomThenMove == []C9_ScenarioState /\ [][C9_PanStep]_vars

C9_Witness == start = "default" /\ scen = 4

(***************************************************************************)
(* C4: in the control loop a key event changes the viewport exactly as its *)
(* bound mutator does and touches no other field: '+' or '=' multiplies    *)
(* zoom by 1.5, '-' divides it by 1.5, Left/'h' and Right/'l' change only  *)
(* center_x by -/+ 0.1/zoom, Up/'k' and Down/'j' change only center_y by   *)
(* -/+ 0.1/zoom, 'i' and 'd' change only max_iterations; every other key,  *)
(* every non-key event and every poll timeout leaves the four fields       *)
(* unchanged and the loop stays Running.                                   *)
(***************************************************************************)
C4_OneAndHalf == F64Div(F64FromInt(3), F64FromInt(2))

C4_Tenth == F64Div(F64FromInt(1), F64FromInt(10))

C4_Matching(codes) == pc = "match" /\ ev.kind = "Key" /\ ev.code \in codes

C4_Step ==
  LET step == F64Div(C4_Tenth, app.zoom)
      m == app.max_iterations
  IN /\ C4_Matching({"+", "="}) =>
          app' = [app EXCEPT !.zoom = F64Mul(app.zoom, C4_OneAndHalf)]
     /\ C4_Matching({"-"}) =>
          app' = [app EXCEPT !.zoom = F64Div(app.zoom, C4_OneAndHalf)]
     /\ C4_Matching({"Left", "h"}) =>
          app' = [app EXCEPT !.center_x = F64Sub(app.center_x, step)]
     /\ C4_Matching({"Right", "l"}) =>
          app' = [app EXCEPT !.center_x = F64Add(app.center_x, step)]
     /\ C4_Matching({"Up", "k"}) =>
          app' = [app EXCEPT !.center_y = F64Sub(app.center_y, step)]
     /\ C4_Matching({"Down", "j"}) =>
          app' = [app EXCEPT !.center_y = F64Add(app.center_y, step)]
     /\ C4_Matching({"i"}) =>
          app' = [app EXCEPT
                    !.max_iterations = IF m + 20 > 500 THEN 500 ELSE m + 20]
     /\ C4_Matching({"d"}) =>
          app' = [app EXCEPT
                    !.max_iterations = IF m - 20 < 20 THEN 20 ELSE m - 20]
     /\ pc = "match" /\ ~C4_Matching(MutatorKeys \cup {"q"}) =>
          app' = app /\ Running'
     /\ pc = "poll" /\ pc' # "read" /\ io_errors' = io_errors =>
          app' = app /\ Running'

C4_KeyEffects == [][C4_Step]_vars

C4_Witness ==
  /\ pc = "draw" /\ calls = 2
  /\ app.zoom = C4_OneAndHalf
  /\ app.center_x # AppDefault.center_x

(***************************************************************************)
(* C5: the control loop leaves the Running state in exactly two ways: a    *)
(* 'q' key event, on which it returns success, or an I/O failure of draw,  *)
(* poll or read, on which it returns that error at once; afterwards there  *)
(* is no further draw, poll or viewport mutation, and no other key, event  *)
(* or timeout terminates the loop.                                         *)
(***************************************************************************)
C5_QuitEvent == pc = "match" /\ ev = [kind |-> "Key", code |-> "q"]

C5_Step ==
  /\ Running /\ ~Running' =>
       \/ C5_QuitEvent /\ res' = "ok" /\ io_errors' = io_errors
       \/ /\ pc \in {"draw", "poll", "read"}
          /\ res' = "err"
          /\ io_errors' = io_errors \cup {pc}
  /\ C5_QuitEvent => ~Running' /\ res' = "ok"
  /\ Running /\ io_errors' # io_errors => ~Running' /\ res' = "err"
  /\ res # "pending" =>
       /\ ~Running'
       /\ UNCHANGED <<app, draws, polls, reads, calls, res>>

C5_LoopExit == [](Running => res = "pending") /\ [][C5_Step]_vars

C5_Witness == pc = "disable_raw_mode" /\ res = "ok" /\ draws = 2

(***************************************************************************)
(* C6: the process exit code is 0 on a clean quit and non-zero on any I/O  *)
(* failure (of terminal setup, of drawing, of polling or reading input),   *)
(* and an error message is printed only after the terminal is restored.    *)
(***************************************************************************)
C6_ExitCode ==
  pc = "exited" =>
    /\ (exit_code = 0) <=> (io_errors = {})
    /\ printed # "none" => ~raw_mode /\ ~alt_screen

(***************************************************************************)
(* C7: no execution ends the process with raw mode enabled and no          *)
(* restoration of the terminal attempted.                                  *)
(***************************************************************************)
C7_RestoreAttempted == pc = "exited" /\ raw_mode => restore_attempted

(***************************************************************************)
(* C10: while Running, redraw and input handling strictly alternate: each  *)
(* iteration performs one draw followed by one poll, and at most one read  *)
(* and one mutator call; a draw happens on every tick, also after a poll   *)
(* that timed out; no two polls occur without a draw between them; each    *)
(* draw renders the viewport as it stands after the keys dispatched so far.*)
(***************************************************************************)
C10_Alternation ==
  /\ calls <= reads /\ reads <= polls /\ polls <= draws /\ draws <= polls + 1
  /\ pc = "draw" => draws = polls
  /\ pc = "poll" => draws = polls + 1 /\ reads < draws /\ drawn = app
  /\ pc = "read" => draws = polls /\ reads < polls /\ drawn = app
  /\ pc = "match" => draws = polls /\ calls < reads /\ drawn = app

C10_Witness ==
  pc = "draw" /\ draws = 2 /\ polls = 2 /\ reads = 1 /\ calls = 1

====
